---- MODULE Spec2Model ----
(***************************************************************************)
(* Query-time ranking core of src/start.py: the posting-list codec         *)
(* (read_posting_list), the three ranking models (OPT_Tfidf, calc_BM25 /   *)
(* opt_BM25 / opt_BM25_for_joint, OPT_Cosine) and their top-N selection.   *)
(*                                                                         *)
(* Numbers.  Scores are exact rationals <<numerator, denominator>> in      *)
(* lowest terms.  The two logarithms are tabulated in thousandths          *)
(* (Log10Milli, LnMilli).  OPT_Cosine divides by a square root, so its     *)
(* final score is kept as its square: every cosine score is >= 0 and       *)
(* squaring is strictly increasing there, so equality and order of the     *)
(* squares are equality and order of the scores.                           *)
(*                                                                         *)
(* A Python dict is a sequence of <<key, value>> pairs in insertion order. *)
(***************************************************************************)
EXTENDS Integers, Sequences, FiniteSets, TLC

\* ------------------------------------------------------------------ bounds
MaxQueryLen == 2        \* longest query, in tokens
MaxN == 2               \* largest N a caller asks for
MaxMissing == 2         \* most bytes a short read lacks
MaxCodecLen == 2        \* longest posting list of the codec round trip
MaxExtra == 1           \* most trailing bytes after an encoding

\* ------------------------------------------------------- program constants
RecordSize == 6         \* bytes per posting record
DocIdSize == 4          \* bytes of the document id
DefaultK == 3           \* calc_BM25's default k
DefaultN == 100         \* default N of every ranking function

\* ------------------------------------------------------------- arithmetic
Min(a, b) == IF a <= b THEN a ELSE b

RECURSIVE GCD(_, _)
GCD(a, b) == IF b = 0 THEN a ELSE GCD(b, a % b)

\* the rational n/d (d > 0, n >= 0) in lowest terms
Rat(n, d) == LET g == GCD(n, d) IN <<n \div g, d \div g>>
RatInt(n) == <<n, 1>>
RatAdd(x, y) == Rat(x[1] * y[2] + y[1] * x[2], x[2] * y[2])
RatSub(x, y) == Rat(x[1] * y[2] - y[1] * x[2], x[2] * y[2])
RatMul(x, y) == Rat(x[1] * y[1], x[2] * y[2])
RatDiv(x, y) == Rat(x[1] * y[2], x[2] * y[1])
RatLess(x, y) == x[1] * y[2] < y[1] * x[2]
RatGeq(x, y) == ~RatLess(x, y)

\* calc_BM25's default b = 0.25
DefaultB == <<1, 4>>

\* ------------------------------------------------------------------ codec
\* Python's b[lo:hi] on a bytes object: clamped to the object's length
Slice(b, lo, hi) == SubSeq(b, lo + 1, Min(hi, Len(b)))

\* int.from_bytes(s, 'big'); the empty slice is 0
RECURSIVE FromBytesBig(_)
FromBytesBig(s) ==
    IF s = <<>> THEN 0
    ELSE FromBytesBig(SubSeq(s, 1, Len(s) - 1)) * 256 + s[Len(s)]

\* int.from_bytes(s, 'little'): the byte order a wrong decoder would use
RECURSIVE FromBytesLittle(_)
FromBytesLittle(s) ==
    IF s = <<>> THEN 0
    ELSE s[1] + 256 * FromBytesLittle(Tail(s))

\* the field decoder of read_posting_list
FromBytes(s) == FromBytesBig(s)

\* the loop of read_posting_list: df records of 6 bytes each
DecodePostings(b, n) ==
    [i \in 1..n |->
        <<FromBytes(Slice(b, (i - 1) * RecordSize, (i - 1) * RecordSize + DocIdSize)),
          FromBytes(Slice(b, (i - 1) * RecordSize + DocIdSize, i * RecordSize))>>]

\* v.to_bytes(n, 'big'): the fixture encoder of the posting-list format
RECURSIVE ToBytesBig(_, _)
ToBytesBig(v, n) ==
    IF n = 0 THEN <<>>
    ELSE Append(ToBytesBig(v \div 256, n - 1), v % 256)

RECURSIVE EncodePostings(_)
EncodePostings(entries) ==
    IF entries = <<>> THEN <<>>
    ELSE ToBytesBig(entries[1][1], DocIdSize)
         \o ToBytesBig(entries[1][2], RecordSize - DocIdSize)
         \o EncodePostings(Tail(entries))


\* ------------------------------------------------------------------ state
VARIABLES
    \* the Index View and the storage behind it (read-only during a call)
    df,               \* index.df: term -> document frequency
    DL,               \* index.DL: document id -> length
    docs_norm,        \* index.docs_norm: document id -> vector norm
    store,            \* term -> the bytes stored at index.posting_locs[term]
    failing,          \* the terms whose segment read raises
    \* the arguments of the ranking call
    model,            \* which ranking function is called
    q_tokens,         \* the query, a sequence of tokens
    N,                \* number of documents to return
    k,                \* the k the caller passes (BM25 functions)
    b,                \* the b the caller passes (BM25 functions)
    corpus_docs,      \* number of documents in the corpus
    avg_dl,           \* average document length
    \* the locals of the call
    pc,               \* "start", "loop", "select", "done", "raised"; "off"
    query_size,       \* len(q_tokens)
    items,            \* the Counter items the term loop has not visited yet
    query_sim_dict,   \* the ScoreMap, in insertion order
    err,              \* the exception that left the call, or "none"
    reads,            \* the terms whose posting list was requested, in order
    result,           \* [returned, list]: what the call returned, if it did
    \* the codec round trip
    c_pc,             \* "off"; "entries", "encoded", "padded", "decoded"
    c_entries,        \* the posting list to encode
    c_bytes,          \* its encoding, possibly followed by trailing bytes
    c_out             \* what the decoder returned

indexVars == <<df, DL, docs_norm, store, failing>>
argVars == <<model, q_tokens, N, k, b, corpus_docs, avg_dl>>
localVars == <<pc, query_size, items, query_sim_dict, err, reads, result>>
codecVars == <<c_pc, c_entries, c_bytes, c_out>>
vars == <<indexVars, argVars, localVars, codecVars>>

\* ----------------------------------------------------------- input domains
Vocab == {"a", "b"}                  \* the terms of the index
Tokens == Vocab \cup {"x"}           \* "x" is in no index
Models == {"OPT_Tfidf", "opt_BM25", "opt_BM25_for_joint", "OPT_Cosine"}
BM25Models == {"opt_BM25", "opt_BM25_for_joint"}
\* <<k, b>> a caller may pass: the defaults and one other pair
KBChoices == {<<RatInt(DefaultK), DefaultB>>, <<RatInt(1), <<3, 4>>>>}

SeqsUpTo(S, n) == UNION {[1..m -> S] : m \in 0..n}

Queries == SeqsUpTo(Tokens, MaxQueryLen)

\* posting lists as stored, <<doc_id, tf>> in storage order: one document,
\* another document, and a list that holds the sentinel and is not sorted
PostingLists ==
    { <<<<1, 1>>>>,
      <<<<2, 1>>>>,
      <<<<0, 2>>, <<2, 1>>, <<1, 2>>>> }

\* ------------------------------------------------------------ logarithms
\* round(1000 * log10(n / d))
Log10Milli(n, d) ==
    CASE n = 10 /\ d = 1 -> 1000
      [] n = 10 /\ d = 2 -> 699
      [] n = 10 /\ d = 3 -> 523
      [] n = 10 /\ d = 4 -> 398

\* round(1000 * ln((1 + n) / (d + 0.5)))
LnMilli(n, d) ==
    CASE n = 10 /\ d = 1 -> 1992
      [] n = 10 /\ d = 2 -> 1482
      [] n = 10 /\ d = 3 -> 1145
      [] n = 10 /\ d = 4 -> 894

\* ------------------------------------------------------------ Python dicts
DictKeys(d) == {d[i][1] : i \in 1..Len(d)}
DictIndex(d, key) == CHOOSE i \in 1..Len(d) : d[i][1] = key
DictGet(d, key) == d[DictIndex(d, key)][2]
\* d[key] = v: a new key goes last, an old key keeps its place
DictSet(d, key, v) ==
    IF key \in DictKeys(d)
    THEN [d EXCEPT ![DictIndex(d, key)] = <<key, v>>]
    ELSE Append(d, <<key, v>>)

\* list(Counter(q).items()): distinct tokens in order of first occurrence
RECURSIVE CounterItems(_)
CounterItems(q) ==
    IF q = <<>> THEN <<>>
    ELSE LET front == CounterItems(SubSeq(q, 1, Len(q) - 1))
             t == q[Len(q)]
         IN IF t \in DictKeys(front)
            THEN DictSet(front, t, DictGet(front, t) + 1)
            ELSE Append(front, <<t, 1>>)


\* ------------------------------------------------------- read_posting_list
\* MultiFileReader.read(locs, n): the first n bytes stored at the term's
\* locations (fewer when the segment ends early), or a read error
ReaderRead(w, n) ==
    [ok |-> w \notin failing, bytes |-> SubSeq(store[w], 1, Min(n, Len(store[w])))]

\* a variant that swallows the read error and yields no postings
read_posting_list_swallow(w) ==
    IF w \notin DOMAIN store THEN [err |-> "KeyError", posting_list |-> <<>>]
    ELSE LET r == ReaderRead(w, df[w] * RecordSize)
         IN IF ~r.ok THEN [err |-> "none", posting_list |-> <<>>]
            ELSE [err |-> "none", posting_list |-> DecodePostings(r.bytes, df[w])]

\* read_posting_list: no handler around reader.read, no length check on b
read_posting_list(w) ==
    IF w \notin DOMAIN store THEN [err |-> "KeyError", posting_list |-> <<>>]
    ELSE LET r == ReaderRead(w, df[w] * RecordSize)
         IN IF ~r.ok THEN [err |-> "SegmentReadFailure", posting_list |-> <<>>]
            ELSE [err |-> "none", posting_list |-> DecodePostings(r.bytes, df[w])]

\* ------------------------------------------------------------ merge loops
\* the membership test dropped: every query term is looked up
InIndexAlways(q_word) == TRUE

\* q_word in index.term_total.keys()
InIndex(q_word) == q_word \in DOMAIN df

\* doc_id != 0 with the comparison dropped
IsRealDocAlways(doc_id) == TRUE

\* if doc_id != 0
IsRealDoc(doc_id) == doc_id # 0

\* OPT_Tfidf: query_word_count * (word_count * log10(corpus_docs / df))
TfidfWeight(q_word, query_word_count, doc_id, word_count) ==
    [err |-> "none",
     w |-> RatInt(query_word_count * (word_count * Log10Milli(corpus_docs, df[q_word])))]

\* calc_BM25: tw * q_idf, with index.DL[doc_id] looked up unguarded
BM25Weight(kk, bb, q_word, doc_id, word_count) ==
    IF doc_id \notin DOMAIN DL THEN [err |-> "KeyError", w |-> RatInt(0)]
    ELSE LET q_idf == RatInt(LnMilli(corpus_docs, df[q_word]))
             wc == RatInt(word_count)
             one == RatInt(1)
             tw == RatDiv(RatMul(wc, RatAdd(kk, one)),
                          RatAdd(wc, RatMul(kk,
                              RatAdd(RatSub(one, bb),
                                     RatDiv(RatMul(bb, RatInt(DL[doc_id])),
                                            RatInt(avg_dl))))))
         IN [err |-> "none", w |-> RatMul(tw, q_idf)]

\* OPT_Cosine: word_count * query_word_count
CosineWeight(query_word_count, word_count) ==
    [err |-> "none", w |-> RatInt(word_count * query_word_count)]

PairWeight(m, kk, bb, q_word, query_word_count, doc_id, word_count) ==
    CASE m = "OPT_Tfidf" -> TfidfWeight(q_word, query_word_count, doc_id, word_count)
      [] m \in BM25Models -> BM25Weight(kk, bb, q_word, doc_id, word_count)
      [] m = "OPT_Cosine" -> CosineWeight(query_word_count, word_count)

\* query_sim_dict[doc_id] = w also for a document already scored
AddScoreOverwrite(sim, doc_id, w) == DictSet(sim, doc_id, w)

\* query_sim_dict[doc_id] += w, or = w for a new document
AddScore(sim, doc_id, w) ==
    IF doc_id \in DictKeys(sim)
    THEN DictSet(sim, doc_id, RatAdd(DictGet(sim, doc_id), w))
    ELSE DictSet(sim, doc_id, w)

\* the inner loop over one term's posting list, from entry i on;
\* fr = [sim, err, reads]
RECURSIVE MergePostings(_, _, _, _, _, _, _, _)
MergePostings(m, kk, bb, q_word, query_word_count, pl, i, fr) ==
    IF i > Len(pl) \/ fr.err # "none" THEN fr
    ELSE LET doc_id == pl[i][1]
             word_count == pl[i][2]
         IN IF ~IsRealDoc(doc_id)
            THEN MergePostings(m, kk, bb, q_word, query_word_count, pl, i + 1, fr)
            ELSE LET pw == PairWeight(m, kk, bb, q_word, query_word_count,
                                      doc_id, word_count)
                 IN IF pw.err # "none" THEN [fr EXCEPT !.err = pw.err]
                    ELSE MergePostings(m, kk, bb, q_word, query_word_count, pl, i + 1,
                             [fr EXCEPT !.sim = AddScore(@, doc_id, pw.w)])

\* one iteration of the loop over the Counter items
TermStep(m, kk, bb, item, fr) ==
    IF ~InIndex(item[1]) THEN fr
    ELSE LET r == read_posting_list(item[1])
             fr1 == [fr EXCEPT !.reads = Append(@, item[1])]
         IN IF r.err # "none" THEN [fr1 EXCEPT !.err = r.err]
            ELSE MergePostings(m, kk, bb, item[1], item[2], r.posting_list, 1, fr1)

\* the whole loop over the Counter items
RECURSIVE MergeTerms(_, _, _, _, _)
MergeTerms(m, kk, bb, its, fr) ==
    IF its = <<>> \/ fr.err # "none" THEN fr
    ELSE MergeTerms(m, kk, bb, Tail(its), TermStep(m, kk, bb, Head(its), fr))

EmptyFrame == [sim |-> <<>>, err |-> "none", reads |-> <<>>]

\* the k and b that reach calc_BM25: opt_BM25 and opt_BM25_for_joint call
\* calc_BM25(q_tokens, index, bucket_name, folder_name, corpus_docs, avg_dl)
\* without k and b, so calc_BM25 runs with its own defaults
UsedK(passed_k) == RatInt(DefaultK)
UsedB(passed_b) == DefaultB


\* ------------------------------------------------------ final normalization
\* OPT_Tfidf with 1 / query_size hoisted out of the loop over the ScoreMap
RECURSIVE NormalizeTfidfEager(_, _, _)
NormalizeTfidfEager(sim, qs, i) ==
    IF qs = 0 THEN [err |-> "ZeroDivisionError", sim |-> sim]
    ELSE IF i > Len(sim) THEN [err |-> "none", sim |-> sim]
    ELSE IF sim[i][1] \notin DOMAIN DL THEN [err |-> "KeyError", sim |-> sim]
    ELSE NormalizeTfidfEager(
             [sim EXCEPT ![i][2] =
                 RatMul(RatMul(@, Rat(1, qs)), Rat(1, DL[sim[i][1]]))], qs, i + 1)

\* OPT_Tfidf: for every key, score * (1 / query_size) * (1 / index.DL[doc_id]);
\* the division is evaluated per key, so never for an empty ScoreMap
RECURSIVE NormalizeTfidf(_, _, _)
NormalizeTfidf(sim, qs, i) ==
    IF i > Len(sim) THEN [err |-> "none", sim |-> sim]
    ELSE IF qs = 0 THEN [err |-> "ZeroDivisionError", sim |-> sim]
    ELSE IF sim[i][1] \notin DOMAIN DL THEN [err |-> "KeyError", sim |-> sim]
    ELSE NormalizeTfidf(
             [sim EXCEPT ![i][2] =
                 RatMul(RatMul(@, Rat(1, qs)), Rat(1, DL[sim[i][1]]))], qs, i + 1)

RECURSIVE SumSquares(_)
SumSquares(its) ==
    IF its = <<>> THEN 0 ELSE its[1][2] * its[1][2] + SumSquares(Tail(its))

\* OPT_Cosine: the square of norm([count / query_size for each distinct term])
QueryNormSq(q) ==
    IF q = <<>> THEN RatInt(0)
    ELSE Rat(SumSquares(CounterItems(q)), Len(q) * Len(q))

\* OPT_Cosine: for every key, score * (1 / query_norm) * (1 / docs_norm[doc_id]),
\* kept as its square
RECURSIVE NormalizeCosine(_, _, _)
NormalizeCosine(sim, qn2, i) ==
    IF i > Len(sim) THEN [err |-> "none", sim |-> sim]
    ELSE IF qn2[1] = 0 THEN [err |-> "ZeroDivisionError", sim |-> sim]
    ELSE IF sim[i][1] \notin DOMAIN docs_norm THEN [err |-> "KeyError", sim |-> sim]
    ELSE LET n == docs_norm[sim[i][1]]
         IN NormalizeCosine(
                [sim EXCEPT ![i][2] =
                    RatMul(RatMul(RatMul(@, @), RatDiv(RatInt(1), qn2)),
                           Rat(1, n * n))], qn2, i + 1)

\* the pass after the term loop; calc_BM25 returns its ScoreMap as it is
Normalize(m, sim, q) ==
    CASE m = "OPT_Tfidf" -> NormalizeTfidf(sim, Len(q), 1)
      [] m = "OPT_Cosine" -> NormalizeCosine(sim, QueryNormSq(q), 1)
      [] m \in BM25Models -> [err |-> "none", sim |-> sim]

\* ------------------------------------------------------------------ top N
\* s is sorted by descending score; e goes after every entry that is >= e
InsertDesc(s, e) ==
    LET p == Cardinality({i \in 1..Len(s) : RatGeq(s[i][2], e[2])})
    IN SubSeq(s, 1, p) \o <<e>> \o SubSeq(s, p + 1, Len(s))

\* s is sorted by ascending score; e goes after every entry that is <= e
InsertAsc(s, e) ==
    LET p == Cardinality({i \in 1..Len(s) : RatGeq(e[2], s[i][2])})
    IN SubSeq(s, 1, p) \o <<e>> \o SubSeq(s, p + 1, Len(s))

\* sorted(...) without reverse=True
RECURSIVE SortedAscending(_)
SortedAscending(sim) ==
    IF sim = <<>> THEN <<>>
    ELSE InsertAsc(SortedAscending(SubSeq(sim, 1, Len(sim) - 1)), sim[Len(sim)])

\* sorted(query_sim_dict, key=query_sim_dict.get, reverse=True): a stable
\* sort, so equal scores keep the dict's insertion order
RECURSIVE SortedDesc(_)
SortedDesc(sim) ==
    IF sim = <<>> THEN <<>>
    ELSE InsertDesc(SortedDesc(SubSeq(sim, 1, Len(sim) - 1)), sim[Len(sim)])

\* if len(query_sim_dict) > N: sorted(...)[:N] else: sorted(...)
TopN(sim, n) ==
    IF Len(sim) > n THEN SubSeq(SortedDesc(sim), 1, n) ELSE SortedDesc(sim)

\* opt_BM25_for_joint returns (key, score) pairs, the others the keys
Project(m, ranked) ==
    IF m = "opt_BM25_for_joint" THEN ranked
    ELSE [i \in 1..Len(ranked) |-> ranked[i][1]]


\* ------------------------------------------------- the ranking functions
\* a call's outcome: the exception or "none", the final ScoreMap, the list
Raised(e) == [err |-> e, sim |-> <<>>, list |-> <<>>]

\* term loop, normalization pass and return statement of model m
RunCall(m, kk, bb, q, n) ==
    LET fr == MergeTerms(m, kk, bb, CounterItems(q), EmptyFrame)
        nz == Normalize(m, fr.sim, q)
    IN IF fr.err # "none" THEN Raised(fr.err)
       ELSE IF nz.err # "none" THEN Raised(nz.err)
       ELSE [err |-> "none", sim |-> nz.sim, list |-> Project(m, TopN(nz.sim, n))]

\* calc_BM25(q_tokens, ..., k, b): the frame its term loop ends with
calc_BM25(q, kk, bb) == MergeTerms("opt_BM25", kk, bb, CounterItems(q), EmptyFrame)

OPT_Tfidf(q, n) == RunCall("OPT_Tfidf", RatInt(DefaultK), DefaultB, q, n)
OPT_Cosine(q, n) == RunCall("OPT_Cosine", RatInt(DefaultK), DefaultB, q, n)
opt_BM25(q, passed_k, passed_b, n) ==
    RunCall("opt_BM25", UsedK(passed_k), UsedB(passed_b), q, n)
opt_BM25_for_joint(q, passed_k, passed_b, n) ==
    RunCall("opt_BM25_for_joint", UsedK(passed_k), UsedB(passed_b), q, n)

\* the call of model m with the arguments of the state and the query q
CallWith(m, q) ==
    CASE m = "OPT_Tfidf" -> OPT_Tfidf(q, N)
      [] m = "OPT_Cosine" -> OPT_Cosine(q, N)
      [] m = "opt_BM25" -> opt_BM25(q, k, b, N)
      [] m = "opt_BM25_for_joint" -> opt_BM25_for_joint(q, k, b, N)

\* ------------------------------------------------------------------- Init
\* the storage faults, on the term "a" (the terms are interchangeable):
\* none, its read raises, or its segment ends 1..MaxMissing bytes early
Faults ==
    {[fails |-> {}, short |-> 0], [fails |-> {"a"}, short |-> 0]}
    \cup {[fails |-> {}, short |-> n] : n \in 1..MaxMissing}

\* the document-keyed mappings: equal lengths, different lengths, and one
\* that lacks document 2 (a posting list may then name an unknown document)
DocStats ==
    { [d \in {1, 2} |-> 1],
      [d \in {1, 2} |-> d],
      [d \in {1} |-> 1] }
DefaultStat == [d \in {1, 2} |-> 1]

CodecIdle ==
    /\ c_pc = "off"
    /\ c_entries = <<>>
    /\ c_bytes = <<>>
    /\ c_out = <<>>

\* nothing has been returned
NoResult == [returned |-> FALSE, list |-> <<>>]

CallStart ==
    /\ pc = "start"
    /\ query_size = 0
    /\ items = <<>>
    /\ query_sim_dict = <<>>
    /\ err = "none"
    /\ reads = <<>>
    /\ result = NoResult

Init ==
    /\ \E entries \in [Vocab -> PostingLists], f \in Faults :
          /\ df = [t \in Vocab |-> Len(entries[t])]
          /\ store = [t \in Vocab |->
                        SubSeq(EncodePostings(entries[t]), 1,
                               Len(entries[t]) * RecordSize
                                 - (IF t = "a" THEN f.short ELSE 0))]
          /\ failing = f.fails
    /\ model \in Models
    /\ q_tokens \in Queries
    /\ N \in (0..MaxN) \cup {DefaultN}
    /\ \E kb \in KBChoices :
          /\ k = kb[1]
          /\ b = kb[2]
          /\ model \notin BM25Models => kb = <<RatInt(DefaultK), DefaultB>>
    \* the mapping the called function never reads is held at one value
    /\ DL \in DocStats
    /\ docs_norm \in DocStats
    /\ model = "OPT_Cosine" => DL = DefaultStat
    /\ model # "OPT_Cosine" => docs_norm = DefaultStat
    /\ corpus_docs = 10
    /\ avg_dl = 2
    /\ CallStart
    /\ CodecIdle

\* ---------------------------------------------------------------- actions
Frame == [sim |-> query_sim_dict, err |-> err, reads |-> reads]
NextFrame == TermStep(model, UsedK(k), UsedB(b), Head(items), Frame)

\* entry of the ranking function: query_size, the Counter, an empty ScoreMap
Begin ==
    /\ pc = "start"
    /\ pc' = "loop"
    /\ query_size' = Len(q_tokens)
    /\ items' = CounterItems(q_tokens)
    /\ query_sim_dict' = <<>>
    /\ UNCHANGED <<err, reads, result, indexVars, argVars, codecVars>>

\* a term that is not in the index is passed over
SkipTerm ==
    /\ pc = "loop"
    /\ items # <<>>
    /\ ~InIndex(Head(items)[1])
    /\ items' = Tail(items)
    /\ UNCHANGED <<pc, query_size, query_sim_dict, err, reads, result,
                   indexVars, argVars, codecVars>>

\* a term of the index: its posting list is read, decoded and merged
MergeTerm ==
    /\ pc = "loop"
    /\ items # <<>>
    /\ InIndex(Head(items)[1])
    /\ NextFrame.err = "none"
    /\ items' = Tail(items)
    /\ query_sim_dict' = NextFrame.sim
    /\ reads' = NextFrame.reads
    /\ UNCHANGED <<pc, query_size, err, result, indexVars, argVars, codecVars>>

\* the read, or a lookup while merging, raises: the exception leaves the call
RaiseInLoop ==
    /\ pc = "loop"
    /\ items # <<>>
    /\ InIndex(Head(items)[1])
    /\ NextFrame.err # "none"
    /\ pc' = "raised"
    /\ err' = NextFrame.err
    /\ reads' = NextFrame.reads
    /\ query_sim_dict' = NextFrame.sim
    /\ UNCHANGED <<query_size, items, result, indexVars, argVars, codecVars>>

\* after the last term: the normalization pass (none for BM25)
NormalizePass ==
    /\ pc = "loop"
    /\ items = <<>>
    /\ Normalize(model, query_sim_dict, q_tokens).err = "none"
    /\ query_sim_dict' = Normalize(model, query_sim_dict, q_tokens).sim
    /\ pc' = "select"
    /\ UNCHANGED <<query_size, items, err, reads, result,
                   indexVars, argVars, codecVars>>

\* the normalization pass raises
NormalizeRaise ==
    /\ pc = "loop"
    /\ items = <<>>
    /\ Normalize(model, query_sim_dict, q_tokens).err # "none"
    /\ err' = Normalize(model, query_sim_dict, q_tokens).err
    /\ pc' = "raised"
    /\ UNCHANGED <<query_size, items, query_sim_dict, reads, result,
                   indexVars, argVars, codecVars>>

\* the return statement: sort, cut to N, project
Select ==
    /\ pc = "select"
    /\ result' = [returned |-> TRUE, list |-> Project(model, TopN(query_sim_dict, N))]
    /\ pc' = "done"
    /\ UNCHANGED <<query_size, items, query_sim_dict, err, reads,
                   indexVars, argVars, codecVars>>

Next ==
    \/ Begin
    \/ SkipTerm
    \/ MergeTerm
    \/ RaiseInLoop
    \/ NormalizePass
    \/ NormalizeRaise
    \/ Select

Spec == Init /\ [][Next]_vars


\* ------------------------------------------------- the codec round trip
\* field values at the edges of the byte positions (document ids stop at
\* 2^31 - 1: TLC's integers are 32-bit signed)
CodecDocIds == {0, 1, 256, 2147483647}
CodecTfs == {0, 1, 256, 65535}
TrailingBytes == {0, 255}

\* no ranking call runs beside the round trip
CallOff ==
    /\ df = [t \in Vocab |-> 1]
    /\ DL = DefaultStat
    /\ docs_norm = DefaultStat
    /\ store = [t \in Vocab |-> <<>>]
    /\ failing = {}
    /\ model = "OPT_Tfidf"
    /\ q_tokens = <<>>
    /\ N = 0
    /\ k = RatInt(DefaultK)
    /\ b = DefaultB
    /\ corpus_docs = 10
    /\ avg_dl = 2
    /\ pc = "off"
    /\ query_size = 0
    /\ items = <<>>
    /\ query_sim_dict = <<>>
    /\ err = "none"
    /\ reads = <<>>
    /\ result = NoResult

InitCodec ==
    /\ CallOff
    /\ c_pc = "entries"
    /\ c_entries \in SeqsUpTo(CodecDocIds \X CodecTfs, MaxCodecLen)
    /\ c_bytes = <<>>
    /\ c_out = <<>>

\* the fixture writes the posting list in the 6-byte record format
CodecEncode ==
    /\ c_pc = "entries"
    /\ c_bytes' = EncodePostings(c_entries)
    /\ c_pc' = "encoded"
    /\ UNCHANGED <<c_entries, c_out, indexVars, argVars, localVars>>

\* the segment holds padding after the records
CodecPad ==
    /\ c_pc = "encoded"
    /\ \E extra \in SeqsUpTo(TrailingBytes, MaxExtra) :
          /\ extra # <<>>
          /\ c_bytes' = c_bytes \o extra
    /\ c_pc' = "padded"
    /\ UNCHANGED <<c_entries, c_out, indexVars, argVars, localVars>>

\* the loop of read_posting_list over the bytes, df = number of records
CodecDecode ==
    /\ c_pc \in {"encoded", "padded"}
    /\ c_out' = DecodePostings(c_bytes, Len(c_entries))
    /\ c_pc' = "decoded"
    /\ UNCHANGED <<c_entries, c_bytes, indexVars, argVars, localVars>>

NextCodec ==
    \/ CodecEncode
    \/ CodecPad
    \/ CodecDecode

SpecCodec == InitCodec /\ [][NextCodec]_vars


\* ----------------------------------------------------------------- claims
\* the document ids of the returned list
ResultDocs ==
    IF model = "opt_BM25_for_joint"
    THEN [i \in 1..Len(result.list) |-> result.list[i][1]]
    ELSE result.list
Range(f) == {f[i] : i \in DOMAIN f}
\* a dict as the set of its <<doc_id, score>> pairs
AsSet(sim) == Range(sim)
\* q with the token "x" (in no index) put after its first i tokens
Inject(q, i) == SubSeq(q, 1, i) \o <<"x">> \o SubSeq(q, i + 1, Len(q))
\* the reorderings of q
Perms(q) ==
    {[i \in 1..Len(q) |-> q[s[i]]] :
        s \in {f \in [1..Len(q) -> 1..Len(q)] : Range(f) = 1..Len(q)}}
DistinctScores(sim) ==
    \A i, j \in 1..Len(sim) : i # j => sim[i][2] # sim[j][2]
LoopDone == pc = "loop" /\ items = <<>>

\* C1: the returned list has exactly min(N, |ScoreMap|) entries, all of them
\* distinct keys of the ScoreMap, in descending order of score, and every
\* returned document scores at least as much as every document left out;
\* opt_BM25_for_joint pairs each document with its score.
C1_TopNSelected ==
    pc = "done" =>
        /\ Len(result.list) = Min(N, Len(query_sim_dict))
        /\ \A i \in 1..Len(ResultDocs) : ResultDocs[i] \in DictKeys(query_sim_dict)
        /\ \A i, j \in 1..Len(ResultDocs) : i # j => ResultDocs[i] # ResultDocs[j]
        /\ \A i, j \in 1..Len(ResultDocs) :
              i < j => RatGeq(DictGet(query_sim_dict, ResultDocs[i]),
                              DictGet(query_sim_dict, ResultDocs[j]))
        /\ \A d \in DictKeys(query_sim_dict) \ Range(ResultDocs) :
              \A i \in 1..Len(ResultDocs) :
                  RatGeq(DictGet(query_sim_dict, ResultDocs[i]),
                         DictGet(query_sim_dict, d))
        /\ model = "opt_BM25_for_joint" =>
              \A i \in 1..Len(result.list) :
                  result.list[i][2] = DictGet(query_sim_dict, result.list[i][1])

\* C1 witness: a call returned N = 1 of two scored documents, and the one
\* returned was inserted second (the sort moved it ahead)
C1_Witness ==
    /\ pc = "done"
    /\ N = 1
    /\ Len(query_sim_dict) = 2
    /\ RatLess(query_sim_dict[1][2], query_sim_dict[2][2])
    /\ ResultDocs = <<query_sim_dict[2][1]>>

\* C2 as claimed: with one more token that is in no index, every model ends
\* with the same final ScoreMap.
C2_SameFinalScoreMap ==
    pc = "done" =>
        \A i \in 0..Len(q_tokens) :
            CallWith(model, Inject(q_tokens, i)).sim = query_sim_dict

\* C2 amended: with one more token that is in no index, the term loop of
\* every model ends with the same accumulated ScoreMap, the same reads and no
\* new error; the BM25 functions, which have no normalization pass, return
\* the same final ScoreMap and list; OPT_Tfidf and OPT_Cosine score the same
\* documents in the same insertion order.
C2_SameAccumulation ==
    /\ LoopDone =>
          \A i \in 0..Len(q_tokens) :
              MergeTerms(model, UsedK(k), UsedB(b),
                         CounterItems(Inject(q_tokens, i)), EmptyFrame) = Frame
    /\ pc = "done" =>
          \A i \in 0..Len(q_tokens) :
              LET r == CallWith(model, Inject(q_tokens, i))
              IN /\ r.err = "none"
                 /\ [j \in 1..Len(r.sim) |-> r.sim[j][1]]
                      = [j \in 1..Len(query_sim_dict) |-> query_sim_dict[j][1]]
                 /\ model \in BM25Models =>
                       r.sim = query_sim_dict /\ r.list = result.list

\* C2 witness: OPT_Tfidf finished its term loop with a scored document, and
\* the final score with the extra token differs
C2_Witness ==
    /\ pc = "done"
    /\ model = "OPT_Tfidf"
    /\ query_sim_dict # <<>>
    /\ OPT_Tfidf(Inject(q_tokens, 0), N).sim # query_sim_dict

\* C3 as claimed: a read that returns fewer than df * 6 bytes aborts the
\* call with TruncatedPostingData.
C3_TruncatedReadAborts ==
    \A i \in 1..Len(reads) :
        (reads[i] \notin failing
            /\ Len(store[reads[i]]) < df[reads[i]] * RecordSize)
        => (pc = "raised" /\ err = "TruncatedPostingData")

\* C4 as claimed: an empty query makes OPT_Tfidf and OPT_Cosine raise
\* EmptyQuery before any scoring work, and nothing is returned.
C4_EmptyQueryRaises ==
    (q_tokens = <<>> /\ model \in {"OPT_Tfidf", "OPT_Cosine"} /\ pc # "start")
        => (pc = "raised" /\ err = "EmptyQuery" /\ ~result.returned)

\* C4 amended: an empty query makes OPT_Tfidf and OPT_Cosine read nothing,
\* raise nothing and return the empty list.
C4_EmptyQueryReturnsEmpty ==
    (q_tokens = <<>> /\ model \in {"OPT_Tfidf", "OPT_Cosine"})
        => /\ pc # "raised"
           /\ err = "none"
           /\ reads = <<>>
           /\ query_sim_dict = <<>>
           /\ pc = "done" => result = [returned |-> TRUE, list |-> <<>>]

\* C4 witness: OPT_Cosine returned from a call with the empty query
C4_Witness ==
    /\ pc = "done"
    /\ q_tokens = <<>>
    /\ model = "OPT_Cosine"
    /\ result.returned

\* C5 as claimed: opt_BM25 and opt_BM25_for_joint score with the k and b the
\* caller passed: their ScoreMap is calc_BM25's for those k and b.
C5_PassedKBUsed ==
    (pc = "done" /\ model \in BM25Models)
        => query_sim_dict = calc_BM25(q_tokens, k, b).sim

\* C6 as claimed: a non-zero document id that the document-keyed mapping
\* lacks is skipped, so no lookup raises.
C6_UnknownDocSkipped ==
    err # "KeyError"

\* C7: document id 0 is never a key of the ScoreMap and never in a returned
\* list.
C7_NoSentinel ==
    /\ 0 \notin DictKeys(query_sim_dict)
    /\ 0 \notin Range(ResultDocs)

\* C7 witness: a call returned a document after merging a posting list that
\* decodes an entry with document id 0
C7_Witness ==
    /\ pc = "done"
    /\ result.list # <<>>
    /\ \E i \in 1..Len(reads) :
          \E e \in Range(DecodePostings(store[reads[i]], df[reads[i]])) :
              e[1] = 0

\* C8 as claimed: every reordering of the query's tokens returns the same
\* list.
C8_SameListForPermutation ==
    pc = "done" =>
        \A p \in Perms(q_tokens) : CallWith(model, p).list = result.list

\* C8 amended: every reordering of the query's tokens ends without error
\* when the call did, gives every document the same score, and returns the
\* same list when no two documents of the ScoreMap have equal scores; a
\* call that raised raises for every reordering.
C8_SameScoresForPermutation ==
    /\ pc = "done" =>
          \A p \in Perms(q_tokens) :
              LET r == CallWith(model, p)
              IN /\ r.err = "none"
                 /\ AsSet(r.sim) = AsSet(query_sim_dict)
                 /\ DistinctScores(query_sim_dict) => r.list = result.list
    /\ pc = "raised" =>
          \A p \in Perms(q_tokens) : CallWith(model, p).err # "none"

\* C8 witness: a query of two index terms whose reordering inserts the
\* documents in another order, returned with all scores distinct
C8_Witness ==
    /\ pc = "done"
    /\ Len(result.list) = 2
    /\ DistinctScores(query_sim_dict)
    /\ \E p \in Perms(q_tokens) :
          /\ p # q_tokens
          /\ CallWith(model, p).sim # query_sim_dict

\* C9: decoding the 6-byte big-endian encoding of a posting list, with df =
\* its length, returns that list, with or without trailing bytes.
C9_RoundTrip ==
    c_pc = "decoded" => c_out = c_entries

\* C9 witness: two records, one with the largest document id and the largest
\* term frequency, were decoded from bytes that end in padding
C9_Witness ==
    /\ c_pc = "decoded"
    /\ Len(c_entries) = MaxCodecLen
    /\ <<2147483647, 65535>> \in Range(c_entries)
    /\ Len(c_bytes) > Len(c_entries) * RecordSize
    /\ c_out = c_entries

\* C10: a failed read is the last read of the call (no retry, no further
\* term), the call ends with that error and returns nothing.
C10_ReadFailurePropagates ==
    \A i \in 1..Len(reads) :
        reads[i] \in failing
        => /\ i = Len(reads)
           /\ pc = "raised"
           /\ err = "SegmentReadFailure"
           /\ ~result.returned

\* C10 witness: the read of the first of two index terms failed and the
\* second term was never read
C10_Witness ==
    /\ pc = "raised"
    /\ err = "SegmentReadFailure"
    /\ Len(items) = 2
    /\ reads = <<"a">>
    /\ ~result.returned

====
